---- MODULE Spec2Model ----
(***************************************************************************)
(* The scorelist routes of app/routes/scorelist_routes.js: INDEX (ranked   *)
(* top ten), SHOW, CREATE, UPDATE and DESTROY over a document store.       *)
(*                                                                         *)
(* The store is the external database.  A request touches it at the points *)
(* where the database executes a call (find, findById, create, updateOne,  *)
(* deleteOne); the promise callbacks between two such points run without   *)
(* interruption in the server, so each action below is one database call   *)
(* together with the callbacks that follow it up to the next call.  What   *)
(* a request has in flight between two actions is a call the store has not *)
(* executed yet.                                                           *)
(***************************************************************************)
EXTENDS Integers, Sequences, FiniteSets, Bags, TLC

\* Store calls in flight at once: an UPDATE, DESTROY or INDEX request is taken
\* while fewer are in flight.
MaxConc == 2
\* Records the store ever assigns an id to, in the CRUD specification.
MaxRecords == 2
\* Largest store the ranking specification starts from.
MaxLen == 11
\* The leaderboard cap (the three literals 10 of the INDEX callback).
TopN == 10

Users == {"A", "B"}
\* A CREATE gives the first score; an UPDATE may set the second.
Scores == {1}
NewScores == {2}
Titles == {""}
Ids == 1..MaxRecords

\* JavaScript null / undefined.
Null == [null |-> TRUE]

VARIABLES
    store,      \* the collection, in the order find() returns it (insertion order)
    nextId,     \* the next id the store assigns
    createdBy,  \* history: id of a stored record -> the caller whose CREATE made it
    pending,    \* the bag of calls issued to the store and not executed yet
    last        \* the request that took the latest step, and what it has done so far

vars == <<store, nextId, createdBy, pending, last>>

----------------------------------------------------------------------------
(* Request payloads: req.body.scorelist, an object with any of the keys    *)
(* owner, score, title.                                                    *)

Has(body, key) == key \in DOMAIN body

Without(body, key) == [k \in DOMAIN body \ {key} |-> body[k]]

Opt(S) == {<<>>} \cup {<<x>> : x \in S}

Field(key, opt) == IF opt = <<>> THEN <<>> ELSE key :> opt[1]

Body(o, s, t) == Field("owner", o) @@ Field("score", s) @@ Field("title", t)

Bodies ==
    {Body(o, s, t) : o \in Opt(Users), s \in Opt(Scores \cup NewScores), t \in Opt(Titles)}

UpdateBodies == {b \in Bodies : Has(b, "score") => b.score \in NewScores}

\* The payloads a CREATE is given: a score and a title, and any owner.
CreateBodies ==
    {b \in Bodies : Has(b, "score") /\ Has(b, "title") /\ b.score \in Scores}

----------------------------------------------------------------------------
(* Store calls.                                                            *)

Position(st, id) == {i \in 1..Len(st) : st[i].id = id}

\* Scorelist.findById(id): the document, or null.
findById(st, id) ==
    IF Position(st, id) = {} THEN Null ELSE st[CHOOSE i \in Position(st, id) : TRUE]

\* Scorelist.create(body): a new document with the next id, appended.
NewDoc(id, body) ==
    [id |-> id, owner |-> body.owner, score |-> body.score, title |-> body.title]

\* document.updateOne(body): sets the keys of body on the record with the
\* document's id; a record that is gone matches nothing and nothing is written.
Updated(doc, body) ==
    [id    |-> doc.id,
     owner |-> IF Has(body, "owner") THEN body.owner ELSE doc.owner,
     score |-> IF Has(body, "score") THEN body.score ELSE doc.score,
     title |-> IF Has(body, "title") THEN body.title ELSE doc.title]

updateOne(st, id, body) ==
    [i \in 1..Len(st) |-> IF st[i].id = id THEN Updated(st[i], body) ELSE st[i]]

\* document.deleteOne(): removes the record with the document's id.
deleteOne(st, id) == SelectSeq(st, LAMBDA d : d.id # id)

----------------------------------------------------------------------------
(* lib/custom_errors and lib/remove_blank_fields.                          *)

handle404(doc) == IF doc = Null THEN "NotFound" ELSE "ok"

requireOwnership(user, doc) == IF doc.owner # user THEN "Forbidden" ELSE "ok"

RECURSIVE removeBlanksFrom(_, _)
removeBlanksFrom(body, keys) ==
    IF keys = {} THEN body
    ELSE LET k == CHOOSE x \in keys : TRUE
         IN  removeBlanksFrom(IF k = "title" /\ body[k] = "" THEN Without(body, k) ELSE body,
                              keys \ {k})

removeBlanks(body) == removeBlanksFrom(body, DOMAIN body)

----------------------------------------------------------------------------
(* The handlers' own code.                                                 *)

\* CREATE: req.body.scorelist.owner = req.user.id
SetOwner(body, user) == ("owner" :> user) @@ body

\* UPDATE: delete req.body.scorelist.owner
KeepOwner(body) == body

DeleteOwner(body) == Without(body, "owner")

\* SHOW: .then(handle404)
ShowChain(doc) == handle404(doc)

\* UPDATE: .then(handle404).then(scorelist => { requireOwnership(req, scorelist) ...
UpdateChainNoOwnership(user, doc) == handle404(doc)

UpdateChain(user, doc) ==
    IF handle404(doc) # "ok" THEN handle404(doc) ELSE requireOwnership(user, doc)

\* DESTROY: .then(handle404).then(scorelist => { requireOwnership(req, scorelist) ...
DestroyChainNo404(user, doc) ==
    IF doc = Null THEN "ok" ELSE requireOwnership(user, doc)

DestroyChain(user, doc) ==
    IF handle404(doc) # "ok" THEN handle404(doc) ELSE requireOwnership(user, doc)

----------------------------------------------------------------------------
(* Requests.  status is the status sent on res (0: none yet), err the      *)
(* error handed to next ("none": none), op the state of the write the      *)
(* request issued ("none": it issued none).  docOwner, wrote and missed    *)
(* are history: the owner of the document findById gave ("null": no        *)
(* document); the request called updateOne or deleteOne; the store         *)
(* executed that call and the record was gone.  otherOwner: the UPDATE    *)
(* payload named an owner other than the document's.  upserted: the write  *)
(* put a record into the store that was not there.  given: the documents   *)
(* find() gave an INDEX request; scorelists: the list it responded with.   *)

NoRequest ==
    [kind |-> "none", user |-> "A", docOwner |-> "null", status |-> 0, err |-> "none",
     op |-> "none", wrote |-> FALSE, missed |-> FALSE, otherOwner |-> FALSE,
     upserted |-> FALSE, given |-> <<>>, scorelists |-> <<>>]

OwnerOf(doc) == IF doc = Null THEN "null" ELSE doc.owner

Request(kind, user, doc) ==
    [NoRequest EXCEPT !.kind = kind, !.user = user, !.docOwner = OwnerOf(doc)]

\* The request went through its chain with result res and sends `status` if
\* nothing was thrown; a thrown error skips to .catch(next).
Answered(rq, res, status) ==
    [rq EXCEPT !.status = IF res = "ok" THEN status ELSE 0,
               !.err = IF res = "ok" THEN "none" ELSE res]

Room == BagCardinality(pending) < MaxConc

Issue(call) == pending' = pending (+) SetToBag({call})

Executed(call) == pending' = pending (-) SetToBag({call})

Calls(kind) == {c \in BagToSet(pending) : c.kind = kind}

Init ==
    /\ store = <<>>
    /\ nextId = 1
    /\ createdBy = <<>>
    /\ pending = EmptyBag
    /\ last = NoRequest

\* SHOW  GET /scorelists/:id
Show(user, id) ==
    /\ LET doc == findById(store, id)
       IN  last' = Answered(Request("show", user, doc), ShowChain(doc), 200)
    /\ UNCHANGED <<store, nextId, createdBy, pending>>

\* CREATE  POST /scorelists
Create(user, b) ==
    /\ nextId <= MaxRecords
    /\ LET doc == NewDoc(nextId, SetOwner(b, user))
       IN  /\ store' = Append(store, doc)
           /\ last' = Answered(Request("create", user, doc), "ok", 201)
    /\ createdBy' = createdBy @@ (nextId :> user)
    /\ nextId' = nextId + 1
    /\ UNCHANGED pending

\* UPDATE  PATCH /scorelists/:id, up to the call of updateOne
Update(user, id, b) ==
    /\ Room
    /\ LET body == DeleteOwner(removeBlanks(b))
           doc == findById(store, id)
           res == UpdateChain(user, doc)
       IN  IF res = "ok"
           THEN /\ Issue([kind |-> "updateOne", user |-> user, id |-> id,
                          docOwner |-> OwnerOf(doc), body |-> body])
                /\ last' = [Request("update", user, doc) EXCEPT
                                !.wrote = TRUE, !.op = "pending",
                                !.otherOwner = Has(b, "owner") /\ b.owner # doc.owner]
           ELSE /\ last' = Answered(Request("update", user, doc), res, 204)
                /\ UNCHANGED pending
    /\ UNCHANGED <<store, nextId, createdBy>>

Resumed(call, kind) ==
    [NoRequest EXCEPT !.kind = kind, !.user = call.user, !.docOwner = call.docOwner,
                      !.wrote = TRUE, !.missed = (Position(store, call.id) = {})]

\* UPDATE: the store executes updateOne, and .then(() => res.sendStatus(204))
UpdateOne(call) ==
    /\ store' = updateOne(store, call.id, call.body)
    /\ Executed(call)
    /\ last' = [Resumed(call, "update") EXCEPT
                    !.op = "succeeded", !.status = 204,
                    !.upserted = (Position(store, call.id) = {}
                                    /\ Position(store', call.id) # {})]
    /\ UNCHANGED <<nextId, createdBy>>

\* UPDATE: updateOne rejects, and .catch(next)
UpdateOneFails(call) ==
    /\ Executed(call)
    /\ last' = [Resumed(call, "update") EXCEPT !.op = "failed", !.err = "StoreError",
                                               !.missed = FALSE]
    /\ UNCHANGED <<store, nextId, createdBy>>

\* DESTROY  DELETE /scorelists/:id.  The callback calls scorelist.deleteOne()
\* without returning its promise, so the next .then sends 204 in the same turn.
Destroy(user, id) ==
    /\ Room
    /\ LET doc == findById(store, id)
           res == DestroyChain(user, doc)
       IN  IF res = "ok"
           THEN /\ Issue([kind |-> "deleteOne", user |-> user, id |-> id,
                          docOwner |-> OwnerOf(doc)])
                /\ last' = [Answered(Request("destroy", user, doc), res, 204) EXCEPT
                                !.wrote = TRUE, !.op = "pending"]
           ELSE /\ last' = Answered(Request("destroy", user, doc), res, 204)
                /\ UNCHANGED pending
    /\ UNCHANGED <<store, nextId, createdBy>>

\* DESTROY: the store executes the deleteOne; the 204 went out before
DeleteOne(call) ==
    /\ store' = deleteOne(store, call.id)
    /\ createdBy' = [id \in DOMAIN createdBy \ {call.id} |-> createdBy[id]]
    /\ Executed(call)
    /\ last' = [Resumed(call, "destroy") EXCEPT !.op = "succeeded", !.status = 204]
    /\ UNCHANGED nextId

\* DESTROY: the deleteOne rejects; nothing is chained on its promise
DeleteOneFails(call) ==
    /\ Executed(call)
    /\ last' = [Resumed(call, "destroy") EXCEPT !.op = "failed", !.status = 204,
                                                !.missed = FALSE]
    /\ UNCHANGED <<store, nextId, createdBy>>

Next ==
    \/ \E user \in Users, id \in Ids : Show(user, id)
    \/ \E user \in Users, b \in CreateBodies : Create(user, b)
    \/ \E user \in Users, id \in Ids, b \in UpdateBodies : Update(user, id, b)
    \/ \E call \in Calls("updateOne") : UpdateOne(call)
    \/ \E call \in Calls("updateOne") : UpdateOneFails(call)
    \/ \E user \in Users, id \in Ids : Destroy(user, id)
    \/ \E call \in Calls("deleteOne") : DeleteOne(call)
    \/ \E call \in Calls("deleteOne") : DeleteOneFails(call)

Spec == Init /\ [][Next]_vars

----------------------------------------------------------------------------
(* INDEX  GET /scorelists: the ranking.                                    *)

\* scorelist.toObject(): a plain copy of the document's fields.
toObject(doc) ==
    [id |-> doc.id, owner |-> doc.owner, score |-> doc.score, title |-> doc.title]

\* if (scorelists.length > 10) { scorelists = scorelists.splice(0, 10) }
\* splice removes the first ten elements and returns them.
TruncateNever(scorelists) == scorelists

Truncate(scorelists) ==
    IF Len(scorelists) > TopN THEN SubSeq(scorelists, 1, TopN) ELSE scorelists

\* function (a, b) { return a.score - b.score }
compare(a, b) == a.score - b.score

Front(s) == SubSeq(s, 1, Len(s) - 1)

Last(s) == s[Len(s)]

\* Array.prototype.sort with the comparator: a stable sort.
RECURSIVE Insert(_, _)
Insert(sorted, x) ==
    IF sorted = <<>> THEN <<x>>
    ELSE IF compare(Last(sorted), x) > 0
         THEN Append(Insert(Front(sorted), x), Last(sorted))
         ELSE Append(sorted, x)

RECURSIVE sort(_)
sort(scorelists) ==
    IF scorelists = <<>> THEN <<>>
    ELSE Insert(sort(Front(scorelists)), Last(scorelists))

\* The list the placement loop runs over: truncated, then sorted.
RankedSortFirst(scorelists) == Truncate(sort(scorelists))

Ranked(scorelists) == sort(Truncate(scorelists))

WithPlacement(o, j) ==
    [id |-> o.id, owner |-> o.owner, score |-> o.score, title |-> o.title,
     placement |-> j]

\* for (let i = 0; i < 10; i++) { let j = i + 1; scorelists[i].placement = j }
\* scorelists[i] is undefined past the end, and the assignment throws TypeError.
RECURSIVE PlacementLoop(_, _)
PlacementLoop(scorelists, i) ==
    IF ~(i < TopN) THEN [threw |-> FALSE, scorelists |-> scorelists]
    ELSE IF i + 1 > Len(scorelists) THEN [threw |-> TRUE, scorelists |-> scorelists]
    ELSE PlacementLoop([scorelists EXCEPT ![i + 1] = WithPlacement(@, i + 1)], i + 1)

\* The documents the callback writes back to the store: it calls nothing
\* of the store after find().
IndexWritesRanked(scorelists) == scorelists

IndexWrites(scorelists) == <<>>

Written(st, docs) ==
    [i \in 1..Len(st) |->
        IF \E j \in 1..Len(docs) : docs[j].id = st[i].id
        THEN docs[CHOOSE j \in 1..Len(docs) : docs[j].id = st[i].id]
        ELSE st[i]]

\* INDEX: the request arrives and calls Scorelist.find()
Index ==
    /\ Room
    /\ Issue([kind |-> "find"])
    /\ last' = [NoRequest EXCEPT !.kind = "index", !.op = "pending"]
    /\ UNCHANGED <<store, nextId, createdBy>>

\* INDEX: the store executes find(), and the two callbacks run
Find(call) ==
    /\ Executed(call)
    /\ LET scorelists == [i \in 1..Len(store) |-> toObject(store[i])]
           run == PlacementLoop(Ranked(scorelists), 0)
       IN  /\ store' = Written(store, IndexWrites(run.scorelists))
           /\ last' = [NoRequest EXCEPT
                          !.kind = "index",
                          !.op = "succeeded",
                          !.given = scorelists,
                          !.status = IF run.threw THEN 0 ELSE 200,
                          !.err = IF run.threw THEN "TypeError" ELSE "none",
                          !.scorelists = IF run.threw THEN <<>> ELSE run.scorelists]
    /\ UNCHANGED <<nextId, createdBy>>

\* The stores the ranking starts from: up to MaxLen records whose scores run
\* through an arithmetic progression modulo MaxLen + 2: ascending, descending,
\* scattered, all equal.
ScoreAt(a, b, i) == (a * i + b) % (MaxLen + 2)

StoreOf(n, a, b) ==
    [i \in 1..n |-> [id |-> i, owner |-> "A", score |-> ScoreAt(a, b, i), title |-> ""]]

Stores == {StoreOf(n, a, b) : n \in 0..MaxLen, a \in 0..(MaxLen + 1), b \in 0..1}

InitRank ==
    /\ store \in Stores
    /\ nextId = Len(store) + 1
    /\ createdBy = [i \in 1..Len(store) |-> store[i].owner]
    /\ pending = EmptyBag
    /\ last = NoRequest

NextRank ==
    \/ Index
    \/ \E call \in Calls("find") : Find(call)

SpecRank == InitRank /\ [][NextRank]_vars

----------------------------------------------------------------------------
(* Properties of the CRUD routes, checked under Spec.                      *)

Writes == Calls("updateOne") \cup Calls("deleteOne")

Stored(id) == {i \in 1..Len(store) : store[i].id = id}

NotTheOwner(rq) == rq.docOwner \notin {"null", rq.user}

\* C1: every stored record's owner is the caller whose CREATE made it, and no
\* updateOne call carries an owner key, whatever owner the payload named.
C1_OwnerIsCreator ==
    /\ \A i \in 1..Len(store) : store[i].owner = createdBy[store[i].id]
    /\ \A call \in Calls("updateOne") : ~Has(call.body, "owner")

\* C1 witness: an UPDATE whose payload named another owner has called updateOne,
\* with a body that has no owner key, on a record that is stored.
C1_Witness ==
    /\ last.kind = "update" /\ last.otherOwner /\ last.op = "pending"
    /\ \E call \in Calls("updateOne") :
          /\ call.user = last.user
          /\ ~Has(call.body, "owner")
          /\ Stored(call.id) # {}

\* C2: an UPDATE or DESTROY of a record the caller does not own ends with the
\* ownership error, sends no status and calls no write; every write in flight
\* was issued by the owner of the record it addresses.
C2_NonOwnerNeverWrites ==
    /\ (last.kind \in {"update", "destroy"} /\ NotTheOwner(last))
          => /\ last.err = "Forbidden"
             /\ last.status = 0
             /\ ~last.wrote
             /\ last.op = "none"
    /\ \A call \in Writes :
          /\ call.user = call.docOwner
          /\ \A i \in Stored(call.id) : store[i].owner = call.user

\* C2 witness: an UPDATE by a caller who is not the owner was refused.
C2_Witness ==
    /\ last.kind = "update" /\ NotTheOwner(last)
    /\ last.err = "Forbidden" /\ ~last.wrote

\* C3: a SHOW, UPDATE or DESTROY whose findById gave no document ends with the
\* not-found error, sends no success status and calls no write.
C3_AbsentIsNotFound ==
    (last.kind \in {"show", "update", "destroy"} /\ last.docOwner = "null")
        => /\ last.err = "NotFound"
           /\ last.status = 0
           /\ ~last.wrote
           /\ last.op = "none"

\* C3 witness: a DESTROY of an id the store does not hold ended with NotFound.
C3_Witness ==
    /\ last.kind = "destroy" /\ last.docOwner = "null"
    /\ last.err = "NotFound" /\ last.status = 0

\* C4: an UPDATE whose record was deleted between its findById and its
\* updateOne ends with the not-found error and not with 204, and its write
\* does not bring the record back.
C4_StaleUpdateNotFound ==
    (last.kind = "update" /\ last.missed)
        => /\ last.status # 204
           /\ last.err = "NotFound"
           /\ ~last.upserted

\* C9: a DESTROY has sent 204 only if its deleteOne has succeeded, and a
\* deleteOne that failed has handed its error to next.
C9_DeleteAwaited ==
    last.kind = "destroy"
        => /\ last.status = 204 => last.op = "succeeded"
           /\ last.op = "failed" => last.err # "none"

----------------------------------------------------------------------------
(* Properties of the ranking, checked under SpecRank.                      *)

Listed(rq) == rq.kind = "index" /\ rq.op = "succeeded"

Ascending(s) == \A i \in 1..(Len(s) - 1) : s[i].score <= s[i + 1].score

Descending(s) == \A i \in 1..(Len(s) - 1) : s[i].score > s[i + 1].score

DistinctScores(s) == \A i, j \in 1..Len(s) : i # j => s[i].score # s[j].score

\* C5: the list an INDEX request responds with has at most TopN records.
C5_AtMostTopN == Listed(last) => Len(last.scorelists) <= TopN

\* C5 witness: a store of more than TopN records was listed with TopN records.
C5_Witness ==
    /\ Listed(last) /\ last.status = 200
    /\ Len(last.given) > TopN
    /\ Len(last.scorelists) = TopN

\* C6: for stored records with distinct scores the INDEX request responds with
\* the records in ascending score order, the record at position i (from 1)
\* carrying placement i.
C6_SortedWithPlacement ==
    (Listed(last) /\ last.given # <<>> /\ DistinctScores(last.given))
        => /\ last.status = 200
           /\ last.scorelists # <<>>
           /\ Ascending(last.scorelists)
           /\ \A i \in 1..Len(last.scorelists) : last.scorelists[i].placement = i

\* C7: with fewer than TopN stored records the INDEX request responds 200 with
\* as many records as are stored, each with a placement, and hands no error to
\* next.
C7_FewerThanTopN ==
    (Listed(last) /\ Len(last.given) < TopN)
        => /\ last.status = 200
           /\ last.err = "none"
           /\ Len(last.scorelists) = Len(last.given)
           /\ \A i \in 1..Len(last.scorelists) : Has(last.scorelists[i], "placement")

\* C8: with TopN stored records or more the INDEX request responds with exactly
\* the first TopN records in store order, put in ascending score order; what
\* comes after them in store order is left out, whatever its score.
C8_TruncateThenSort ==
    (Listed(last) /\ Len(last.given) >= TopN)
        => /\ last.status = 200
           /\ Len(last.scorelists) = TopN
           /\ Ascending(last.scorelists)
           /\ {toObject(last.scorelists[i]) : i \in 1..TopN}
                 = {last.given[i] : i \in 1..TopN}

\* C8 witness: TopN + 1 records stored in descending score order were listed,
\* and the last of them, which has the lowest score, is not in the list.
C8_Witness ==
    /\ Listed(last) /\ last.status = 200
    /\ Len(last.given) = TopN + 1
    /\ Descending(last.given)
    /\ \A i \in 1..Len(last.scorelists) :
          last.scorelists[i].id # last.given[TopN + 1].id

\* C10: an INDEX request leaves the store as it read it, and no stored record
\* ever has a placement.
C10_IndexLeavesStore ==
    /\ \A i \in 1..Len(store) : ~Has(store[i], "placement")
    /\ Listed(last) => store = last.given

\* C10 witness: a list with placements went out and the store is as it was read.
C10_Witness ==
    /\ Listed(last) /\ last.status = 200
    /\ \A i \in 1..Len(last.scorelists) : last.scorelists[i].placement = i
    /\ store = last.given
    /\ store # <<>>

====
